---- MODULE Spec2Model ----
(***************************************************************************)
(* Model of pages/01_戦績閲覧.py: the cached Google Sheets client          *)
(* (get_gspread_client), the record loader (load_data) and the display     *)
(* ordering / CSV export computed in main.                                 *)
(*                                                                         *)
(* One script run is: main calls load_data (RunLoad), main builds the      *)
(* display table and the CSV export (RunDisplay), the run ends (RunEnd).   *)
(* Only the st.cache_resource cache survives from one run to the next.     *)
(*                                                                         *)
(* pandas semantics are those of pandas 1.x / 2.x, which the source was    *)
(* written against (Series.astype(str) turns NaN into the text "nan").     *)
(***************************************************************************)
EXTENDS Integers, Sequences, FiniteSets, TLC

VARIABLES
    SPREADSHEET_ID,     \* module global, assigned by lines 13-16 in every run
    cache,              \* st.cache_resource entry of get_gspread_client
    clientsMade,        \* number of client handles gspread.authorize has produced
    pc,                 \* position of the script run
    ops,                \* external calls made during the current run, in order
    diags,              \* st.error / st.warning / st.info messages of the current run
    raw,                \* what the environment answered in the current run
    client,             \* load_data's local: what get_gspread_client returned
    df,                 \* the frame load_data returned to main
    df_display_sorted,  \* the frame handed to st.dataframe
    csv_export          \* the frame serialised for the download button

vars == <<SPREADSHEET_ID, cache, clientsMade, pc, ops, diags, raw, client, df,
          df_display_sorted, csv_export>>

-----------------------------------------------------------------------------
(* Bounds of the model *)

MaxRows == 2        \* data rows of the remote worksheet
MaxClients == 2     \* client handles that can be authorized in one process

-----------------------------------------------------------------------------
(* Constants of the program *)

COLUMNS == <<"season", "date", "environment", "my_deck", "my_deck_type",
             "opponent_deck", "opponent_deck_type", "first_second", "result",
             "finish_turn", "memo">>

string_cols == <<"my_deck_type", "opponent_deck_type", "my_deck", "opponent_deck",
                 "season", "memo", "first_second", "result", "environment">>

display_columns == <<"date", "season", "environment", "my_deck", "my_deck_type",
                     "opponent_deck", "opponent_deck_type", "first_second",
                     "result", "finish_turn", "memo">>

WORKSHEET_NAME == "シート1"

DefaultSpreadsheetId == "1V9guZQbpV8UDU_W2pC1WBsE1hOHqIO4yTsG8oGzaPQU"

SecretSpreadsheetId == "id-from-secrets"

NoSpreadsheetId == ""   \* between two runs the name is not bound

-----------------------------------------------------------------------------
(* Cells.  A raw cell is what get_as_dataframe delivers; a typed cell is    *)
(* what load_data leaves in the frame after coercion.                      *)

Null == [t |-> "null"]                          \* NaN / None (empty cell, na_filter=True)
Txt(s) == [t |-> "text", s |-> s]               \* a str
Num(n, frac) == [t |-> "num", n |-> n, frac |-> frac]
                                                \* a number n, or n + 1/2 when frac
DateTxt(y, m, d) == [t |-> "ymd", y |-> y, m |-> m, d |-> d]
                                                \* the text "YYYY-MM-DD"
NaT == [t |-> "NaT"]                            \* missing datetime64
Ts(y, m, d) == [t |-> "ts", y |-> y, m |-> m, d |-> d]   \* a Timestamp
NA == [t |-> "NA"]                              \* missing Int64
IntV(n) == [t |-> "int", n |-> n]               \* an Int64 value

Range(s) == {s[i] : i \in 1..Len(s)}

IsLeap(y) == (y % 4 = 0 /\ y % 100 # 0) \/ y % 400 = 0

DaysInMonth(y, m) ==
    IF m \in {4, 6, 9, 11} THEN 30
    ELSE IF m = 2 THEN (IF IsLeap(y) THEN 29 ELSE 28)
    ELSE 31

ValidYmd(y, m, d) == m \in 1..12 /\ d >= 1 /\ d <= DaysInMonth(y, m)

\* pd.to_datetime(x, errors='coerce') on one cell
to_datetime(c) ==
    IF c.t = "ymd" /\ ValidYmd(c.y, c.m, c.d) THEN Ts(c.y, c.m, c.d)
    ELSE IF c.t = "ts" THEN c
    ELSE NaT

\* pd.to_numeric(x, errors='coerce') on one cell: a float, NaN when not numeric
to_numeric(c) == IF c.t \in {"num", "int"} THEN c ELSE Null

\* Series.astype('Int64') raises TypeError when some float is not integral
AsInt64Raises(col) == \E i \in 1..Len(col) : col[i].t = "num" /\ col[i].frac

AsInt64(c) == IF c.t \in {"num", "int"} THEN IntV(c.n) ELSE NA

\* Series.astype(str) on one cell of an object column: str(x), and str(nan) is
\* the text "nan".  (The text columns of the model hold text or NaN only.)
AsTypeStr(c) == IF c.t = "null" THEN Txt("nan") ELSE c

\* Series.fillna('') on one cell
FillNaEmpty(c) == IF c.t = "null" THEN Txt("") ELSE c

-----------------------------------------------------------------------------
(* Frames: columns is the ordered list of column names, rows a sequence of  *)
(* functions from the column names to cells.                                *)

Frame(columns, rows) == [columns |-> columns, rows |-> rows]

\* DataFrame.empty: some axis has length 0
IsEmpty(f) == Len(f.columns) = 0 \/ Len(f.rows) = 0

\* (variant: the failure paths return pd.DataFrame(), a frame without columns)
EmptyUntyped == Frame(<<>>, <<>>)

\* pd.DataFrame(columns=COLUMNS), lines 62-67, 107, 110, 113
EmptyCanonical == Frame(COLUMNS, <<>>)

\* lines 85-87: the empty typed Series assigned for a missing column, after
\* alignment with the frame's index (every row gets the dtype's missing value)
MissingCell(col) ==
    IF col = "date" THEN NaT ELSE IF col = "finish_turn" THEN NA ELSE Null

\* lines 80-88: temp_df.  The frame takes its index from the first source
\* column that is assigned; when no canonical column is in the source the
\* frame keeps its empty index.
Reconcile(f) ==
    LET n == IF \E c \in Range(COLUMNS) : c \in Range(f.columns)
             THEN Len(f.rows) ELSE 0
    IN  Frame(COLUMNS,
              [i \in 1..n |->
                 [c \in Range(COLUMNS) |->
                    IF c \in Range(f.columns) THEN f.rows[i][c]
                    ELSE MissingCell(c)]])

\* line 93: the finish_turn column, and whether astype('Int64') raises
FinishTurnColumn(f) == [i \in 1..Len(f.rows) |-> to_numeric(f.rows[i]["finish_turn"])]

\* lines 90-101: type coercion of one reconciled row
CoerceCell(col, c) ==
    IF col = "date" THEN to_datetime(c)
    ELSE IF col = "finish_turn" THEN AsInt64(to_numeric(c))
    ELSE IF col \in Range(string_cols) THEN FillNaEmpty(AsTypeStr(c))
    ELSE c

Coerce(f) ==
    Frame(f.columns,
          [i \in 1..Len(f.rows) |->
             [c \in Range(f.columns) |-> CoerceCell(c, f.rows[i][c])]])

\* line 103: df.reindex(columns=COLUMNS)
Reindex(f) ==
    Frame(COLUMNS,
          [i \in 1..Len(f.rows) |->
             [c \in Range(COLUMNS) |->
                IF c \in Range(f.columns) THEN f.rows[i][c] ELSE Null]])

\* lines 76-77: the header test guarding the warning
Take(s, n) == [i \in 1..(IF Len(s) < n THEN Len(s) ELSE n) |-> s[i]]

HeaderMatches(columns) ==
    \/ Take(columns, Len(COLUMNS)) = COLUMNS
    \/ columns = COLUMNS
    \/ Range(COLUMNS) \subseteq Range(columns)

-----------------------------------------------------------------------------
(* Diagnostics: one record per st.error / st.warning / st.info call.        *)

Diag(level, what, store, table) ==
    [level |-> level, what |-> what, store |-> store, table |-> table]

-----------------------------------------------------------------------------
(* get_gspread_client, lines 30-54, under @st.cache_resource.               *)

None == [t |-> "None"]                  \* the value None
Client(k) == [t |-> "client", id |-> k] \* the k-th handle gspread.authorize made

EmptyCache == [filled |-> FALSE, value |-> None, msgs |-> <<>>]

\* (variant: the decorator is missing, nothing is stored)
CacheStoreNothing(c, value, msgs) == c

\* st.cache_resource stores the returned value together with the st.*
\* messages the call emitted, and replays them on a hit
CacheStore(c, value, msgs) == [filled |-> TRUE, value |-> value, msgs |-> msgs]

\* the body of get_gspread_client, lines 32-54
\* env.secrets: "gcp_service_account" in st.secrets;  env.infoOk / env.fileOk:
\* Credentials.from_service_account_info / _file succeed;  env.authOk:
\* gspread.authorize succeeds;  made: handles authorized so far
ClientBody(env, made) ==
    IF env.secrets /\ ~env.infoOk
    THEN [raised |-> TRUE, value |-> None, msgs |-> <<>>,
          ops |-> <<"from_service_account_info">>]
    ELSE IF ~env.secrets /\ ~env.fileOk
    THEN [raised |-> FALSE, value |-> None,
          msgs |-> <<Diag("error", "credential_file", "", "")>>,
          ops |-> <<"from_service_account_file">>]
    ELSE LET built == IF env.secrets THEN "from_service_account_info"
                      ELSE "from_service_account_file"
         IN  IF env.authOk
             THEN [raised |-> FALSE, value |-> Client(made + 1), msgs |-> <<>>,
                   ops |-> <<built, "authorize">>]
             ELSE [raised |-> FALSE, value |-> None,
                   msgs |-> <<Diag("error", "authorize", "", "")>>,
                   ops |-> <<built, "authorize">>]

\* a call of the cached function: a hit returns the stored value and replays
\* the stored messages; a miss runs the body and stores what it returned; a
\* raised exception is stored nowhere
get_gspread_client(c, env, made) ==
    IF c.filled
    THEN [raised |-> FALSE, value |-> c.value, msgs |-> c.msgs, ops |-> <<>>,
          cache |-> c]
    ELSE LET b == ClientBody(env, made)
         IN  [raised |-> b.raised, value |-> b.value, msgs |-> b.msgs,
              ops |-> b.ops,
              cache |-> IF b.raised THEN c ELSE CacheStore(c, b.value, b.msgs)]

-----------------------------------------------------------------------------
(* load_data, lines 57-114.                                                 *)
(* remote is what the Google Sheets side answers to the calls of this run:  *)
(*   open, worksheet, fetch, row_values: "ok" or the exception raised by    *)
(*   client.open_by_key, spreadsheet.worksheet, get_as_dataframe and        *)
(*   worksheet.row_values;  header: the first row of the worksheet;         *)
(*   rows: the data rows get_as_dataframe parses under that header.         *)

Step(exc, frame, msgs, called) ==
    [exc |-> exc, df |-> frame, msgs |-> msgs, ops |-> called]

\* lines 72-78: the header-only branch; f is the frame get_as_dataframe gave
HeaderOnly(f, remote, called) ==
    IF ~(IsEmpty(f) /\ remote.row_count > 0)
    THEN Step("none", f, <<>>, called)
    ELSE IF remote.row_values # "ok"
    THEN Step(remote.row_values, f, <<>>, Append(called, "row_values"))
    ELSE IF Len(remote.header) = 0
    THEN Step("none", f, <<>>, Append(called, "row_values"))
    ELSE LET g == Frame(remote.header, <<>>)
         IN  Step("none", g,
                  IF HeaderMatches(g.columns) THEN <<>>
                  ELSE <<Diag("warning", "header_mismatch", "", "")>>,
                  called \o <<"row_values", "row_values">>)

\* lines 80-103: reconciliation, coercion and reordering
Normalize(s) ==
    LET t == Reconcile(s.df)
    IN  IF AsInt64Raises(FinishTurnColumn(t))
        THEN Step("TypeError", t, s.msgs, s.ops)
        ELSE Step("none", Reindex(Coerce(t)), s.msgs, s.ops)

\* lines 69-103: the body of the try block
TryBody(remote) ==
    IF remote.open # "ok"
    THEN Step(remote.open, EmptyCanonical, <<>>, <<"open_by_key">>)
    ELSE IF remote.worksheet # "ok"
    THEN Step(remote.worksheet, EmptyCanonical, <<>>, <<"open_by_key", "worksheet">>)
    ELSE IF remote.fetch # "ok"
    THEN Step(remote.fetch, EmptyCanonical, <<>>,
              <<"open_by_key", "worksheet", "get_as_dataframe">>)
    ELSE LET h == HeaderOnly(Frame(remote.header, remote.rows), remote,
                             <<"open_by_key", "worksheet", "get_as_dataframe">>)
         IN  IF h.exc # "none" THEN h ELSE Normalize(h)

\* (variant: "except Exception" comes first and takes every exception)
HandleGeneric(s, spreadsheet_id, worksheet_name) ==
    IF s.exc = "none" THEN [df |-> s.df, msgs |-> s.msgs, ops |-> s.ops]
    ELSE [df |-> EmptyCanonical,
          msgs |-> Append(s.msgs, Diag("error", "unexpected", "", "")),
          ops |-> s.ops]

\* lines 105-113: the except clauses
Handle(s, spreadsheet_id, worksheet_name) ==
    IF s.exc = "none" THEN [df |-> s.df, msgs |-> s.msgs, ops |-> s.ops]
    ELSE [df |-> EmptyCanonical,
          msgs |-> Append(s.msgs,
                     IF s.exc = "SpreadsheetNotFound"
                     THEN Diag("error", "spreadsheet_not_found", spreadsheet_id, "")
                     ELSE IF s.exc = "WorksheetNotFound"
                     THEN Diag("error", "worksheet_not_found", spreadsheet_id,
                               worksheet_name)
                     ELSE Diag("error", "unexpected", "", "")),
          ops |-> s.ops]

\* lines 57-114; g is the result of the call of get_gspread_client on line 59.
\* An exception of that call is outside the try block and leaves load_data.
load_data(spreadsheet_id, worksheet_name, g, remote) ==
    IF g.raised
    THEN [raised |-> TRUE, df |-> EmptyCanonical, msgs |-> g.msgs, ops |-> g.ops]
    ELSE IF g.value = None
    THEN [raised |-> FALSE, df |-> EmptyCanonical,
          msgs |-> Append(g.msgs, Diag("error", "no_client", "", "")),
          ops |-> g.ops]
    ELSE LET r == Handle(TryBody(remote), spreadsheet_id, worksheet_name)
         IN  [raised |-> FALSE, df |-> r.df, msgs |-> g.msgs \o r.msgs,
              ops |-> g.ops \o r.ops]

-----------------------------------------------------------------------------
(* main, lines 125-146: the display table and the CSV export.               *)

IsPermutation(p, n) ==
    /\ DOMAIN p = 1..n
    /\ \A i \in 1..n : p[i] \in 1..n
    /\ \A i, j \in 1..n : p[i] = p[j] => i = j

Orderings(n) == {p \in [1..n -> 1..n] : IsPermutation(p, n)}

IsNaT(row) == to_datetime(row["date"]) = NaT
NotNaT(row) == ~IsNaT(row)

\* lines 133-134: the rows whose date is (isna = TRUE) or is not (isna = FALSE)
\* missing, in their order in the frame
RowsWhere(rows, isna) ==
    LET F[i \in 0..Len(rows)] ==
          IF i = 0 THEN <<>>
          ELSE IF IsNaT(rows[i]) = isna THEN Append(F[i - 1], rows[i]) ELSE F[i - 1]
    IN  F[Len(rows)]

\* the value a Timestamp is ordered by
DateKey(c) == (c.y * 12 + c.m) * 31 + c.d

\* (variant: ascending=False is missing)
sort_values_asc(rows) ==
    {[i \in 1..Len(rows) |-> rows[p[i]]] : p \in
       {q \in Orderings(Len(rows)) :
          \A i \in 1..(Len(rows) - 1) :
             DateKey(rows[q[i]]["date"]) <= DateKey(rows[q[i + 1]]["date"])}}

\* line 135: sort_values(by='date', ascending=False) with the default,
\* unstable kind='quicksort': every descending arrangement of the rows is a
\* possible result (ties in any order)
sort_values_desc(rows) ==
    {[i \in 1..Len(rows) |-> rows[p[i]]] : p \in
       {q \in Orderings(Len(rows)) :
          \A i \in 1..(Len(rows) - 1) :
             DateKey(rows[q[i]]["date"]) >= DateKey(rows[q[i + 1]]["date"])}}

\* lines 137-138: strftime('%Y-%m-%d') of a Timestamp, None for NaT
strftime(c) == IF c.t = "ts" THEN DateTxt(c.y, c.m, c.d) ELSE Null

\* lines 128-141: the frames st.dataframe can be given for a non-empty df
DisplayFrames(f) ==
    LET parsed == [i \in 1..Len(f.rows) |->
                     [f.rows[i] EXCEPT !["date"] = to_datetime(@)]]
        not_nat_dates == RowsWhere(parsed, FALSE)
        nat_dates == RowsWhere(parsed, TRUE)
    IN  {Frame(display_columns,
               [i \in 1..Len(parsed) |->
                  [(s \o nat_dates)[i] EXCEPT !["date"] = strftime(@)]]) :
           s \in sort_values_desc(not_nat_dates)}

\* line 142: df.to_csv(index=False), cell by cell
CsvCell(c) ==
    IF c.t = "ts" THEN DateTxt(c.y, c.m, c.d)
    ELSE IF c.t \in {"NaT", "NA", "null"} THEN Txt("")
    ELSE IF c.t = "int" THEN Num(c.n, FALSE)
    ELSE c

to_csv(f) ==
    Frame(f.columns,
          [i \in 1..Len(f.rows) |->
             [c \in Range(f.columns) |-> CsvCell(f.rows[i][c])]])

NoFrame == Frame(<<>>, <<>>)

-----------------------------------------------------------------------------
(* The inputs of a run.                                                     *)

Envs == [secrets : BOOLEAN, infoOk : BOOLEAN, fileOk : BOOLEAN, authOk : BOOLEAN]

NoEnv == [secrets |-> FALSE, infoOk |-> FALSE, fileOk |-> FALSE, authOk |-> FALSE]

Remote(open, worksheet, fetch, row_values, header, rows) ==
    [open |-> open, worksheet |-> worksheet, fetch |-> fetch,
     row_values |-> row_values, header |-> header, rows |-> rows,
     row_count |-> Len(rows) + 1]

NoRemote == Remote("ok", "ok", "ok", "ok", <<>>, <<>>)

\* headers of the remote worksheet
HExact == COLUMNS
HExtra == COLUMNS \o <<"extra">>
HReordered == display_columns
HNoMemo == SubSeq(COLUMNS, 1, Len(COLUMNS) - 1)
HSubset == <<"date", "result">>
HForeign == <<"foo", "bar">>

Headers == {HExact, HExtra, HReordered, HNoMemo, HSubset, HForeign}

\* raw cells of a data row: a base row, varied in one cell at a time, and
\* rows without a date that differ from each other in the memo
BaseDate == DateTxt(2024, 1, 5)
BaseTurn == Num(3, FALSE)
BaseText == Txt("t")
BaseMemo == Txt("m")

DateCells == {DateTxt(2024, 2, 29), DateTxt(2023, 2, 29), Txt("abc"), Null}
TurnCells == {Num(0, FALSE), Num(-1, FALSE), Num(2, TRUE), Txt("abc"), Null}
TextCells == {Null}
MemoCells == {Null}
UndatedMemoCells == {Txt("m2")}

RowCells ==
    {[date |-> BaseDate, turn |-> BaseTurn, text |-> BaseText, memo |-> BaseMemo]}
    \cup {[date |-> d, turn |-> BaseTurn, text |-> BaseText, memo |-> BaseMemo] :
            d \in DateCells}
    \cup {[date |-> BaseDate, turn |-> n, text |-> BaseText, memo |-> BaseMemo] :
            n \in TurnCells}
    \cup {[date |-> BaseDate, turn |-> BaseTurn, text |-> x, memo |-> BaseMemo] :
            x \in TextCells}
    \cup {[date |-> BaseDate, turn |-> BaseTurn, text |-> BaseText, memo |-> x] :
            x \in MemoCells}
    \cup {[date |-> Null, turn |-> BaseTurn, text |-> BaseText, memo |-> x] :
            x \in UndatedMemoCells}

RawRow(header, k) ==
    [c \in Range(header) |->
       IF c = "date" THEN k.date
       ELSE IF c = "finish_turn" THEN k.turn
       ELSE IF c = "memo" THEN k.memo
       ELSE k.text]

RawRows(header) == {RawRow(header, k) : k \in RowCells}

RowSeqs(header) ==
    UNION {[1..n -> RawRows(header)] : n \in 0..MaxRows}

Remotes ==
    {Remote(e, "ok", "ok", "ok", <<>>, <<>>) : e \in {"SpreadsheetNotFound", "APIError"}}
    \cup {Remote("ok", e, "ok", "ok", <<>>, <<>>) : e \in {"WorksheetNotFound", "APIError"}}
    \cup {Remote("ok", "ok", "APIError", "ok", <<>>, <<>>)}
    \cup {Remote("ok", "ok", "ok", "APIError", h, <<>>) : h \in Headers}
    \cup {Remote("ok", "ok", "ok", "ok", <<>>, <<>>)}
    \cup UNION {{Remote("ok", "ok", "ok", "ok", h, r) : r \in RowSeqs(h)} : h \in Headers}

-----------------------------------------------------------------------------
(* The state machine.                                                       *)

\* lines 13-16: the id of this run; has_secret: st.secrets holds
\* spreadsheet_ids.war_record
ModuleSpreadsheetId(has_secret) ==
    IF has_secret THEN SecretSpreadsheetId ELSE DefaultSpreadsheetId

\* lines 13-17: the warning of a run that falls back to the default id
ImportDiags(id) ==
    IF id = DefaultSpreadsheetId
    THEN <<Diag("warning", "default_spreadsheet_id", "", "")>> ELSE <<>>

Init ==
    /\ SPREADSHEET_ID = NoSpreadsheetId
    /\ cache = EmptyCache
    /\ clientsMade = 0
    /\ pc = "idle"
    /\ ops = <<>>
    /\ diags = <<>>
    /\ raw = [env |-> NoEnv, remote |-> NoRemote]
    /\ client = None
    /\ df = EmptyCanonical
    /\ df_display_sorted = NoFrame
    /\ csv_export = NoFrame

\* the script runs from line 1: lines 13-17 assign SPREADSHEET_ID from the
\* secrets of this run, then main, line 121:
\* df = load_data(SPREADSHEET_ID, WORKSHEET_NAME)
RunLoad ==
    /\ pc = "idle"
    /\ \E has_secret \in BOOLEAN : SPREADSHEET_ID' = ModuleSpreadsheetId(has_secret)
    /\ \E env \in (IF cache.filled THEN {NoEnv} ELSE Envs) :
         LET g == get_gspread_client(cache, env, clientsMade)
             fresh == ~g.raised /\ g.value # None /\ "authorize" \in Range(g.ops)
         IN  /\ fresh => clientsMade < MaxClients
             /\ \E remote \in (IF ~g.raised /\ g.value # None THEN Remotes
                               ELSE {NoRemote}) :
                  LET r == load_data(SPREADSHEET_ID', WORKSHEET_NAME, g, remote)
                  IN  /\ cache' = g.cache
                      /\ clientsMade' = IF fresh THEN clientsMade + 1 ELSE clientsMade
                      /\ pc' = IF r.raised THEN "crashed" ELSE "loaded"
                      /\ ops' = r.ops
                      /\ diags' = ImportDiags(SPREADSHEET_ID') \o r.msgs
                      /\ raw' = [env |-> env, remote |-> remote]
                      /\ client' = g.value
                      /\ df' = r.df
    /\ UNCHANGED <<df_display_sorted, csv_export>>

\* main, lines 124-146
RunDisplay ==
    /\ pc = "loaded"
    /\ pc' = "shown"
    /\ IF IsEmpty(df)
       THEN /\ diags' = Append(diags, Diag("info", "no_data", "", ""))
            /\ UNCHANGED <<df_display_sorted, csv_export>>
       ELSE /\ df_display_sorted' \in DisplayFrames(df)
            /\ csv_export' = to_csv(df)
            /\ UNCHANGED diags
    /\ UNCHANGED <<SPREADSHEET_ID, cache, clientsMade, ops, raw, client, df>>

\* the script run ends (normally, or with the exception that left main); only
\* the cache of st.cache_resource outlives it, the module globals do not
RunEnd ==
    /\ pc \in {"shown", "crashed"}
    /\ pc' = "idle"
    /\ SPREADSHEET_ID' = NoSpreadsheetId
    /\ ops' = <<>>
    /\ diags' = <<>>
    /\ raw' = [env |-> NoEnv, remote |-> NoRemote]
    /\ client' = None
    /\ df' = EmptyCanonical
    /\ df_display_sorted' = NoFrame
    /\ csv_export' = NoFrame
    /\ UNCHANGED <<cache, clientsMade>>

Next == RunLoad \/ RunDisplay \/ RunEnd

Spec == Init /\ [][Next]_vars

-----------------------------------------------------------------------------
(* Properties.                                                              *)

Returned == pc \in {"loaded", "shown"}      \* load_data has returned to main

DiagsOf(what) == {i \in 1..Len(diags) : diags[i].what = what}

Reported(what) == DiagsOf(what) # {}

ErrorReported == \E i \in 1..Len(diags) : diags[i].level = "error"

CredentialOps == {"from_service_account_info", "from_service_account_file", "authorize"}

\* the run fetched the worksheet without any exception of the remote side
Fetched ==
    /\ Returned
    /\ "get_as_dataframe" \in Range(ops)
    /\ raw.remote.fetch = "ok"
    /\ raw.remote.row_values = "ok"

\* the credentials could not be built, or the client could not be authorized
AcquisitionFailed ==
    /\ Range(ops) \cap CredentialOps # {}
    /\ \/ raw.env.secrets /\ ~raw.env.infoOk
       \/ ~raw.env.secrets /\ ~raw.env.fileOk
       \/ ~raw.env.authOk

\* C1: whatever load_data returns has exactly the canonical columns, in the
\* canonical order, and every row has exactly these fields.
C1_CanonicalSchema ==
    Returned =>
        /\ df.columns = COLUMNS
        /\ \A i \in 1..Len(df.rows) : DOMAIN df.rows[i] = Range(COLUMNS)

C1_Witness ==
    /\ pc = "loaded"
    /\ raw.remote.header = HExtra
    /\ Len(raw.remote.rows) = MaxRows
    /\ Len(df.rows) = MaxRows

\* C2: no exception leaves load_data: every run reaches main's next statement,
\* and a run in which some step failed has an empty canonical frame and at
\* least one error message.
C2_NeverRaises ==
    /\ pc # "crashed"
    /\ (Returned /\ (client = None \/ raw.remote.open # "ok"
                     \/ raw.remote.worksheet # "ok" \/ raw.remote.fetch # "ok"
                     \/ raw.remote.row_values # "ok"))
          => (df = EmptyCanonical /\ ErrorReported)

\* C3: get_gspread_client never raises: when credential construction (from the
\* secrets or from the file) or authorization fails, the call returns None and
\* an error message has been recorded, and load_data then returns the empty
\* frame with the connectivity message.
C3_ClientUnavailable ==
    (pc # "idle" /\ AcquisitionFailed) =>
        /\ Returned
        /\ client = None
        /\ Reported("credential_file") \/ Reported("authorize")
        /\ Reported("no_client")
        /\ df = EmptyCanonical

\* C4: every text field of every returned row holds text, and it is the empty
\* text where the source cell is null or the source has no such column.
C4_TextNeverNull ==
    Fetched =>
        \A i \in 1..Len(df.rows) : \A c \in Range(string_cols) :
            /\ df.rows[i][c].t = "text"
            /\ (c \notin Range(raw.remote.header) \/ raw.remote.rows[i][c] = Null)
                  => df.rows[i][c] = Txt("")

\* C5: finish_turn of every returned row is absent or an integer >= 0.
C5_FinishTurnNonNegative ==
    Returned =>
        \A i \in 1..Len(df.rows) :
            \/ df.rows[i]["finish_turn"] = NA
            \/ df.rows[i]["finish_turn"].t = "int" /\ df.rows[i]["finish_turn"].n >= 0

\* C6: with the canonical header, load_data returns one row per source row, in
\* source order; a row's date is the parsed date or absent, and its text cells
\* are kept, whatever the other cells of the table hold.
C6_OneRecordPerRow ==
    (Fetched /\ raw.remote.header = COLUMNS) =>
        /\ Len(df.rows) = Len(raw.remote.rows)
        /\ \A i \in 1..Len(df.rows) :
              /\ df.rows[i]["date"] = to_datetime(raw.remote.rows[i]["date"])
              /\ \A c \in Range(string_cols) :
                    raw.remote.rows[i][c] # Null =>
                        df.rows[i][c] = raw.remote.rows[i][c]

\* C7: a header that matches the canonical schema in none of the three ways is
\* reported by a warning, with or without data rows, and the load completes;
\* a header that matches is not reported.
C7_MismatchWarned ==
    (Fetched /\ Len(raw.remote.header) > 0) =>
        /\ Reported("header_mismatch") <=> ~HeaderMatches(raw.remote.header)
        /\ df.columns = COLUMNS

\* C8: with a client, an unknown spreadsheet id and an unknown worksheet name
\* are reported by two different messages, each once, naming the id (and the
\* worksheet), never by the message for unexpected errors; the worksheet is not
\* looked up after the spreadsheet was not found; the frame is empty.
C8_NotFoundDiagnostics ==
    (Returned /\ client # None) =>
        /\ raw.remote.open = "SpreadsheetNotFound" =>
              /\ Cardinality(DiagsOf("spreadsheet_not_found")) = 1
              /\ \A i \in DiagsOf("spreadsheet_not_found") :
                    diags[i].store = SPREADSHEET_ID
              /\ ~Reported("worksheet_not_found")
              /\ ~Reported("unexpected")
              /\ "worksheet" \notin Range(ops)
              /\ df = EmptyCanonical
        /\ (raw.remote.open = "ok" /\ raw.remote.worksheet = "WorksheetNotFound") =>
              /\ Cardinality(DiagsOf("worksheet_not_found")) = 1
              /\ \A i \in DiagsOf("worksheet_not_found") :
                    diags[i].store = SPREADSHEET_ID /\ diags[i].table = WORKSHEET_NAME
              /\ ~Reported("spreadsheet_not_found")
              /\ ~Reported("unexpected")
              /\ df = EmptyCanonical

C8_Witness ==
    /\ pc = "loaded"
    /\ client # None
    /\ raw.remote.open = "ok"
    /\ raw.remote.worksheet = "WorksheetNotFound"
    /\ Reported("worksheet_not_found")

\* C9: once gspread.authorize has produced a client, every later run gets that
\* same handle from the cache, builds no credentials and authorizes nothing,
\* and a failure of the handle in load_data is reported as an unexpected error
\* without a new client being made.
C9_ClientCached ==
    [][clientsMade >= 1 =>
          /\ clientsMade' = clientsMade
          /\ cache' = cache
          /\ pc' = "loaded" =>
                /\ client' = Client(1)
                /\ Range(ops') \cap CredentialOps = {}
                /\ raw'.remote.open = "APIError" => Reported("unexpected")']_vars

C9_Witness ==
    /\ pc = "loaded"
    /\ client = Client(1)
    /\ Range(ops) \cap CredentialOps = {}
    /\ raw.remote.open = "APIError"
    /\ Reported("unexpected")

\* C10: the display table is a rearrangement of the rows of a non-empty frame:
\* the rows with a date first, by date descending, then the rows without a
\* date in their original order; the CSV export keeps the frame's own order.
C10_DisplayOrder ==
    (pc = "shown" /\ ~IsEmpty(df)) =>
        /\ \E p \in Orderings(Len(df.rows)) :
              /\ Len(df_display_sorted.rows) = Len(df.rows)
              /\ \A i \in 1..Len(df.rows) :
                    df_display_sorted.rows[i] =
                        [df.rows[p[i]] EXCEPT !["date"] = strftime(@)]
              /\ \A i, j \in 1..Len(df.rows) :
                    i < j =>
                       \/ NotNaT(df.rows[p[i]]) /\ IsNaT(df.rows[p[j]])
                       \/ /\ NotNaT(df.rows[p[i]]) /\ NotNaT(df.rows[p[j]])
                          /\ DateKey(df.rows[p[i]]["date"])
                                >= DateKey(df.rows[p[j]]["date"])
                       \/ IsNaT(df.rows[p[i]]) /\ IsNaT(df.rows[p[j]]) /\ p[i] < p[j]
        /\ Len(csv_export.rows) = Len(df.rows)
        /\ \A i \in 1..Len(df.rows) : \A c \in Range(COLUMNS) :
              csv_export.rows[i][c] = CsvCell(df.rows[i][c])

\* a row without a date precedes a dated row in the frame and follows it in
\* the display table
C10_Witness ==
    /\ pc = "shown"
    /\ Len(df.rows) = MaxRows
    /\ IsNaT(df.rows[1])
    /\ NotNaT(df.rows[MaxRows])
    /\ df_display_sorted.rows[1]["date"] # Null

\* two rows without a date that differ are in the frame, and the display table
\* lists them in the frame's order
C10_UndatedPair ==
    /\ pc = "shown"
    /\ \E i, j \in 1..Len(df.rows) :
          /\ i < j
          /\ IsNaT(df.rows[i]) /\ IsNaT(df.rows[j])
          /\ df.rows[i] # df.rows[j]
          /\ df_display_sorted.rows[i]["memo"] = df.rows[i]["memo"]
          /\ df_display_sorted.rows[j]["memo"] = df.rows[j]["memo"]
          /\ df.rows[i]["memo"] # df.rows[j]["memo"]

====
